---- MODULE Spec2Model ----
(***************************************************************************)
(* Stackification of a basic block (src/stackify.ts): the use counter, the *)
(* tree recoverer (recoverTree and its root loop) and the stack emitter    *)
(* (visit, makeLocal and its root loop), as a state machine.  The two      *)
(* recursive functions are run on an explicit call stack, one action per   *)
(* operand examined, per call return and per root-loop iteration.          *)
(*                                                                         *)
(* Indices are 0-based as in the source; At(s, i) reads element i.         *)
(* Operands keep the source's encoding: arg >= 0 is the index of an        *)
(* instruction, arg < 0 is the constant ~arg.                              *)
(***************************************************************************)
EXTENDS Integers, Sequences, FiniteSets

VARIABLES
  block,        \* the input block: a sequence of [kind, args]
  pc,           \* "input", "trees", "emit", "done"
  uses,         \* the use-count array
  index,        \* the cursor of the pass that is running
  stack,        \* the call stack of recoverTree / visit
  trees,        \* the forest: a sequence of <<root index, tree>>
  wasmCode,     \* the operation sequence, first operation first
  locals,       \* Map: instruction index -> local slot
  nextLocal,    \* the next free slot
  recoverCalls, \* history: <<index, call depth>> of every recoverTree call, in call order
  visitCalls,   \* history: <<index, call depth>> of every visit call, in call order
  opOwner       \* history: for every operation of wasmCode, <<instruction, role>>

vars == <<block, pc, uses, index, stack, trees, wasmCode, locals, nextLocal,
          recoverCalls, visitCalls, opOwner>>

\* ---------------------------------------------------------------- bounds

MaxLen == 3
MaxLenTrees == 4
MaxLenAny == 2

\* ------------------------------------------------------------- encodings

\* JavaScript's ~x on a 32-bit integer.
Not(x) == 0 - x - 1

At(s, i) == s[i + 1]

\* uses[arg] where the array has no such element reads undefined; undefined++
\* stores NaN.  Both are numbers no count ever equals.
Undefined == 0 - 2
NaN == 0 - 1

FirstLocal == 100

Kinds == {"Add", "LocalGet", "LocalSet"}

Unshift(s, x) == <<x>> \o s

\* The empty Map.
EmptyMap == [x \in {} |-> 0]

MapSet(m, k, v) == [x \in (DOMAIN m) \cup {k} |-> IF x = k THEN v ELSE m[x]]

\* ---------------------------------------------------------- input blocks

ConstVals == {1}

\* The instructions that may follow the well-formed block b: every reference is to
\* an earlier instruction that produces a value (not a LocalSet).
ValueProducers(b) == {i \in 0..(Len(b) - 1) : At(b, i).kind # "LocalSet"}

InsOver(opnds, localNums) ==
  {[kind |-> "Add", args |-> <<x, y>>] : x \in opnds, y \in opnds}
    \cup {[kind |-> "LocalGet", args |-> <<Not(n)>>] : n \in localNums}
    \cup {[kind |-> "LocalSet", args |-> <<Not(n), x>>] : n \in localNums, x \in opnds}

\* The caller builds the block it passes to stackify, one instruction at a time.
\* Supply: a well-formed block (every reference names an earlier instruction that
\* produces a value).  SupplyAny: references may name any index (the instruction
\* itself, a later one, one that produces no value, or none at all).
Supply(maxLen, localNums) ==
  /\ pc = "input"
  /\ Len(block) < maxLen
  /\ \E ins \in InsOver({Not(c) : c \in ConstVals} \cup ValueProducers(block), localNums) :
       block' = Append(block, ins)
  /\ UNCHANGED <<pc, uses, index, stack, trees, wasmCode, locals, nextLocal,
                 recoverCalls, visitCalls, opOwner>>

SupplyAny(maxLen, localNums) ==
  /\ pc = "input"
  /\ Len(block) < maxLen
  /\ \E ins \in InsOver({Not(c) : c \in ConstVals} \cup 0..maxLen, localNums) :
       block' = Append(block, ins)
  /\ UNCHANGED <<pc, uses, index, stack, trees, wasmCode, locals, nextLocal,
                 recoverCalls, visitCalls, opOwner>>

\* Every operand that is a reference names an earlier instruction that produces a value.
WellFormed(b) ==
  \A p \in 0..(Len(b) - 1) :
    \A k \in 1..Len(At(b, p).args) :
      LET arg == At(b, p).args[k] IN
        arg >= 0 => (arg < p /\ At(b, arg).kind # "LocalSet")

\* ------------------------------------------------------------ use counter

\* uses.push(0)
Push0(u) == Append(u, 0)

\* uses[arg]++ ; an index past the end extends the array with holes.
Increment(u, arg) ==
  IF arg < Len(u)
  THEN [u EXCEPT ![arg + 1] =
          IF At(u, arg) \in {NaN, Undefined} THEN NaN ELSE At(u, arg) + 1]
  ELSE [k \in 1..(arg + 1) |->
          IF k <= Len(u) THEN u[k] ELSE IF k = arg + 1 THEN NaN ELSE Undefined]

RECURSIVE CountArgs(_, _, _)
CountArgs(u, args, k) ==
  IF k > Len(args) THEN u
  ELSE CountArgs(IF args[k] >= 0 THEN Increment(u, args[k]) ELSE u, args, k + 1)

RECURSIVE CountBlock(_, _, _)
CountBlock(u, b, p) ==
  IF p >= Len(b) THEN u
  ELSE CountBlock(CountArgs(Push0(u), At(b, p).args, 1), b, p + 1)

\* uses[arg] as the later passes read it.
UsesOf(u, arg) == IF arg < Len(u) THEN At(u, arg) ELSE Undefined

\* stackify(block) is called: the use-count loop, then let index = block.length.
CountUses ==
  /\ pc = "input"
  /\ uses' = CountBlock(<<>>, block, 0)
  /\ index' = Len(block)
  /\ pc' = "trees"
  /\ UNCHANGED <<block, stack, trees, wasmCode, locals, nextLocal,
                 recoverCalls, visitCalls, opOwner>>

\* --------------------------------------------------------- tree recoverer

\* A cursor that skips a position.
Decrement_Twice(i) == IF i >= 2 THEN i - 2 ELSE i - 1

\* The cursor after index--.
Decrement(i) == i - 1

\* The test without the adjacency condition.
InlineInTree_NoAdjacency(u, arg, idx, stopped) ==
  UsesOf(u, arg) = 1 /\ ~stopped

\* The test with "used" in place of "used exactly once".
InlineInTree_AnyUse(u, arg, idx, stopped) ==
  UsesOf(u, arg) >= 1 /\ arg = idx - 1 /\ ~stopped

\* The test without the stopped flag.
InlineInTree_IgnoresStopped(u, arg, idx, stopped) ==
  UsesOf(u, arg) = 1 /\ arg = idx - 1

\* The test of recoverTree for recovering an argument in place.
InlineInTree(u, arg, idx, stopped) ==
  UsesOf(u, arg) = 1 /\ arg = idx - 1 /\ ~stopped

\* A call of recoverTree at the cursor: its frame at the top of the loop.
TreeFrame(i) ==
  [ins |-> i, j |-> Len(At(block, i).args) - 1, children |-> <<>>, stopped |-> FALSE]

\* while (index > 0) { index--; trees.unshift([index, recoverTree()[0]]) }: the call.
TreeRoot ==
  /\ pc = "trees"
  /\ Len(stack) = 0
  /\ index > 0
  /\ index' = Decrement(index)
  /\ stack' = <<TreeFrame(index')>>
  /\ recoverCalls' = Append(recoverCalls, <<index', 0>>)
  /\ UNCHANGED <<block, pc, uses, trees, wasmCode, locals, nextLocal,
                 visitCalls, opOwner>>

\* One iteration of recoverTree's loop over its arguments, right to left.
RecoverArg ==
  /\ pc = "trees"
  /\ Len(stack) > 0
  /\ LET f == stack[Len(stack)]
         arg == At(At(block, f.ins).args, f.j)
     IN /\ f.j >= 0
        /\ IF arg < 0
           THEN /\ stack' = [stack EXCEPT ![Len(stack)] =
                     [f EXCEPT !.j = f.j - 1,
                               !.children = Unshift(f.children, <<"const", Not(arg)>>)]]
                /\ UNCHANGED <<index, recoverCalls>>
           ELSE IF InlineInTree(uses, arg, index, f.stopped)
           THEN /\ index' = Decrement(index)
                /\ stack' = Append([stack EXCEPT ![Len(stack)] = [f EXCEPT !.j = f.j - 1]],
                                   TreeFrame(index'))
                /\ recoverCalls' = Append(recoverCalls, <<index', Len(stack)>>)
           ELSE /\ stack' = [stack EXCEPT ![Len(stack)] =
                     [f EXCEPT !.j = f.j - 1,
                               !.children = Unshift(f.children, <<"ref", arg>>),
                               !.stopped = TRUE]]
                /\ UNCHANGED <<index, recoverCalls>>
  /\ UNCHANGED <<block, pc, uses, trees, wasmCode, locals, nextLocal,
                 visitCalls, opOwner>>

\* return [{kind: ins.kind, children}, stopped], taken by the caller.
RecoverReturn ==
  /\ pc = "trees"
  /\ Len(stack) > 0
  /\ LET f == stack[Len(stack)]
         tree == [kind |-> At(block, f.ins).kind, children |-> f.children]
         rest == SubSeq(stack, 1, Len(stack) - 1)
     IN /\ f.j < 0
        /\ IF Len(rest) = 0
           THEN /\ trees' = Unshift(trees, <<f.ins, tree>>)
                /\ stack' = rest
           ELSE LET g == rest[Len(rest)] IN
                /\ stack' = [rest EXCEPT ![Len(rest)] =
                     [g EXCEPT !.children = Unshift(g.children, <<"tree", tree>>),
                               !.stopped = g.stopped \/ f.stopped]]
                /\ UNCHANGED trees
  /\ UNCHANGED <<block, pc, uses, index, wasmCode, locals, nextLocal,
                 recoverCalls, visitCalls, opOwner>>

\* The root loop ends; the emitter's index, locals and nextLocal are set up.
TreesDone ==
  /\ pc = "trees"
  /\ Len(stack) = 0
  /\ index = 0
  /\ pc' = "emit"
  /\ index' = Len(block)
  /\ locals' = EmptyMap
  /\ nextLocal' = FirstLocal
  /\ wasmCode' = <<>>
  /\ UNCHANGED <<block, uses, stack, trees, recoverCalls, visitCalls, opOwner>>

\* ---------------------------------------------------------- stack emitter

\* The operation visit emits for the instruction itself (the switch on ins.kind).
OwnOp(ins) ==
  CASE ins.kind = "Add" -> <<"i32.add">>
    [] ins.kind = "LocalGet" -> <<"get_local", Not(ins.args[1])>>
    [] ins.kind = "LocalSet" -> <<"set_local", Not(ins.args[1])>>

\* lower: the first argument of LocalGet and LocalSet is the local's number.
Lower(ins) == IF ins.kind = "Add" THEN 0 ELSE 1

\* The test of visit for computing an argument in place.
InlineInVisit(u, arg, idx) ==
  UsesOf(u, arg) = 1 /\ arg = idx - 1

\* makeLocal(index): the slot it returns, and the Map and counter it leaves.
MakeLocalSlot(m, n, i) == IF i \in DOMAIN m THEN m[i] ELSE n
MakeLocalMap(m, n, i) == IF i \in DOMAIN m THEN m ELSE MapSet(m, i, n)
MakeLocalNext(m, n, i) == IF i \in DOMAIN m THEN n ELSE n + 1

\* The root loop's store of a value that has a slot: the load that follows is
\* turned into a tee_local, or a set_local is put in front.
Fuses_Never(w, local) == FALSE

Fuses(w, local) == Len(w) > 0 /\ w[1] = <<"get_local", local>>

StoreLocal(w, local) ==
  IF Fuses(w, local)
  THEN <<<<"tee_local", local>>>> \o Tail(w)
  ELSE Unshift(w, <<"set_local", local>>)

StoreOwner(w, o, local, i) ==
  IF Fuses(w, local)
  THEN <<<<i, "store">>>> \o Tail(o)
  ELSE Unshift(o, <<i, "store">>)

\* A call of visit at the cursor: its frame after the switch.
VisitFrame(i) ==
  [ins |-> i, j |-> Len(At(block, i).args) - 1, lower |-> Lower(At(block, i))]

\* while (index > 0) { index--; <store of a value with a slot>; visit() }: the call.
EmitRoot ==
  /\ pc = "emit"
  /\ Len(stack) = 0
  /\ index > 0
  /\ index' = Decrement(index)
  /\ LET i == index'
         stored == i \in DOMAIN locals
         w == IF stored THEN StoreLocal(wasmCode, locals[i]) ELSE wasmCode
         o == IF stored THEN StoreOwner(wasmCode, opOwner, locals[i], i) ELSE opOwner
     IN /\ wasmCode' = Unshift(w, OwnOp(At(block, i)))
        /\ opOwner' = Unshift(o, <<i, "own">>)
        /\ stack' = <<VisitFrame(i)>>
        /\ visitCalls' = Append(visitCalls, <<i, 0>>)
  /\ UNCHANGED <<block, pc, uses, trees, locals, nextLocal, recoverCalls>>

\* One iteration of visit's loop over its arguments, right to left.
VisitArg ==
  /\ pc = "emit"
  /\ Len(stack) > 0
  /\ LET f == stack[Len(stack)]
         arg == At(At(block, f.ins).args, f.j)
         popped == [stack EXCEPT ![Len(stack)] = [f EXCEPT !.j = f.j - 1]]
     IN /\ f.j >= f.lower
        /\ IF arg < 0
           THEN /\ wasmCode' = Unshift(wasmCode, <<"i32.const", Not(arg)>>)
                /\ opOwner' = Unshift(opOwner, <<f.ins, "arg">>)
                /\ stack' = popped
                /\ UNCHANGED <<index, locals, nextLocal, visitCalls>>
           ELSE IF InlineInVisit(uses, arg, index)
           THEN /\ index' = Decrement(index)
                /\ wasmCode' = Unshift(wasmCode, OwnOp(At(block, index')))
                /\ opOwner' = Unshift(opOwner, <<index', "own">>)
                /\ stack' = Append(popped, VisitFrame(index'))
                /\ visitCalls' = Append(visitCalls, <<index', Len(stack)>>)
                /\ UNCHANGED <<locals, nextLocal>>
           ELSE /\ wasmCode' = Unshift(wasmCode,
                                       <<"get_local", MakeLocalSlot(locals, nextLocal, arg)>>)
                /\ opOwner' = Unshift(opOwner, <<f.ins, "arg">>)
                /\ locals' = MakeLocalMap(locals, nextLocal, arg)
                /\ nextLocal' = MakeLocalNext(locals, nextLocal, arg)
                /\ stack' = popped
                /\ UNCHANGED <<index, visitCalls>>
  /\ UNCHANGED <<block, pc, uses, trees, recoverCalls>>

\* visit returns.
VisitReturn ==
  /\ pc = "emit"
  /\ Len(stack) > 0
  /\ stack[Len(stack)].j < stack[Len(stack)].lower
  /\ stack' = SubSeq(stack, 1, Len(stack) - 1)
  /\ UNCHANGED <<block, pc, uses, index, trees, wasmCode, locals, nextLocal,
                 recoverCalls, visitCalls, opOwner>>

\* The emitter's root loop ends.
EmitDone ==
  /\ pc = "emit"
  /\ Len(stack) = 0
  /\ index = 0
  /\ pc' = "done"
  /\ UNCHANGED <<block, uses, index, stack, trees, wasmCode, locals, nextLocal,
                 recoverCalls, visitCalls, opOwner>>

\* ------------------------------------------------------------------ specs

Init ==
  /\ block = <<>>
  /\ pc = "input"
  /\ uses = <<>>
  /\ index = 0
  /\ stack = <<>>
  /\ trees = <<>>
  /\ wasmCode = <<>>
  /\ locals = EmptyMap
  /\ nextLocal = FirstLocal
  /\ recoverCalls = <<>>
  /\ visitCalls = <<>>
  /\ opOwner = <<>>

\* The tree recoverer, up to the forest it returns.
RecoverTrees ==
  \/ CountUses
  \/ TreeRoot
  \/ RecoverArg
  \/ RecoverReturn

\* The stack emitter.
Emit ==
  \/ TreesDone
  \/ EmitRoot
  \/ VisitArg
  \/ VisitReturn
  \/ EmitDone

\* Well-formed blocks; their source locals are 0 and 100.
Next == Supply(MaxLen, {0, FirstLocal}) \/ RecoverTrees \/ Emit

Spec == Init /\ [][Next]_vars

\* Longer well-formed blocks, run up to the forest.
NextTrees == Supply(MaxLenTrees, {0}) \/ RecoverTrees

SpecTrees == Init /\ [][NextTrees]_vars

\* Blocks whose references may name any index.
NextAny == SupplyAny(MaxLenAny, {0}) \/ RecoverTrees \/ Emit

SpecAny == Init /\ [][NextAny]_vars

\* ------------------------------------------------- reading the results

Range(s) == {s[k] : k \in 1..Len(s)}

Occurrences(s, x) == Cardinality({k \in 1..Len(s) : s[k] = x})

Positions(b) == 0..(Len(b) - 1)

\* The number of operands of the block that are a reference to instruction i.
RefCount(b, i) ==
  Cardinality({pk \in Positions(b) \X (1..2) :
                 pk[2] <= Len(At(b, pk[1]).args) /\ At(b, pk[1]).args[pk[2]] = i})

\* The instructions nested in the tree of instruction i: a nested child stands at
\* the place of the operand that names its instruction.
RECURSIVE NestedIn(_, _, _)
NestedIn(tree, i, k) ==
  IF k > Len(tree.children) THEN <<>>
  ELSE LET child == tree.children[k]
           arg == At(block, i).args[k]
       IN (IF child[1] = "tree" THEN <<arg>> \o NestedIn(child[2], arg, 1) ELSE <<>>)
            \o NestedIn(tree, i, k + 1)

RECURSIVE NestedOfForest(_, _)
NestedOfForest(f, k) ==
  IF k > Len(f) THEN <<>>
  ELSE NestedIn(f[k][2], f[k][1], 1) \o NestedOfForest(f, k + 1)

Roots(f) == [k \in 1..Len(f) |-> f[k][1]]

\* The back-references of a tree, nested trees included.
RECURSIVE BackRefsIn(_, _)
BackRefsIn(tree, k) ==
  IF k > Len(tree.children) THEN {}
  ELSE LET child == tree.children[k]
       IN (CASE child[1] = "ref" -> {child[2]}
             [] child[1] = "tree" -> BackRefsIn(child[2], 1)
             [] OTHER -> {})
            \cup BackRefsIn(tree, k + 1)

BackRefsOfForest(f) == UNION {BackRefsIn(f[k][2], 1) : k \in 1..Len(f)}

\* The root loop of the tree recoverer has ended.
TreesBuilt == pc \in {"emit", "done"} \/ (pc = "trees" /\ index = 0 /\ Len(stack) = 0)

\* ---------------------------------------------------------------- claims

\* C2: when the tree recoverer has returned, every instruction index is the root
\* of exactly one forest entry or nested inside exactly one tree, never both, and
\* the forest names no other index.
C2_Coverage ==
  TreesBuilt =>
    LET covered == Roots(trees) \o NestedOfForest(trees, 1)
    IN /\ \A i \in Positions(block) : Occurrences(covered, i) = 1
       /\ Range(covered) \subseteq Positions(block)
       /\ Len(covered) = Len(recoverCalls)

\* C2 witness: a finished forest of several trees, one of them with a nested tree.
C2_Witness ==
  /\ TreesBuilt
  /\ Len(trees) >= 2
  /\ Len(NestedOfForest(trees, 1)) >= 1

\* C5: every instruction nested in a tree of the forest is referenced by exactly
\* one operand of the block.
C5_NestedSingleUse ==
  TreesBuilt =>
    \A i \in Range(NestedOfForest(trees, 1)) : RefCount(block, i) = 1

\* C5 witness: a finished forest with a nested instruction beside an instruction
\* that is used twice and one that is never used.
C5_Witness ==
  /\ TreesBuilt
  /\ Len(NestedOfForest(trees, 1)) >= 1
  /\ \E i \in Positions(block) : RefCount(block, i) >= 2
  /\ \E i \in Positions(block) : RefCount(block, i) = 0 /\ At(block, i).kind # "LocalSet"

\* The operand recoverTree is about to examine, when it is a reference.
ExaminesRef ==
  /\ pc = "trees"
  /\ Len(stack) > 0
  /\ stack[Len(stack)].j >= 0
  /\ At(At(block, stack[Len(stack)].ins).args, stack[Len(stack)].j) >= 0

ExaminedArg == At(At(block, stack[Len(stack)].ins).args, stack[Len(stack)].j)

\* The step recurses into the operand / makes it a back-reference leaf.
BecomesNested ==
  /\ Len(stack') = Len(stack) + 1
  /\ stack'[Len(stack')].ins = ExaminedArg

BecomesBackRef ==
  /\ Len(stack') = Len(stack)
  /\ Len(stack'[Len(stack)].children) = Len(stack[Len(stack)].children) + 1
  /\ stack'[Len(stack)].children[1] = <<"ref", ExaminedArg>>

RightHasBackRefLeaf ==
  \E k \in 1..Len(stack[Len(stack)].children) :
    stack[Len(stack)].children[k][1] = "ref"

\* A back-reference leaf to the right, or a nested tree to the right that holds a
\* back-reference at any depth.
RightHasBackRef ==
  \E k \in 1..Len(stack[Len(stack)].children) :
    LET child == stack[Len(stack)].children[k]
    IN \/ child[1] = "ref"
       \/ child[1] = "tree" /\ BackRefsIn(child[2], 1) # {}

\* In every call, left of a back-reference stand only back-references and constants.
LeftOfBackRef ==
  \A d \in 1..Len(stack) :
    pc = "trees" =>
      \A k \in 1..Len(stack[d].children) :
        stack[d].children[k][1] = "ref" =>
          \A m \in 1..(k - 1) : stack[d].children[m][1] \in {"ref", "const"}

\* C8 as stated: a reference operand becomes a nested tree exactly when its use
\* count is 1, it is the cursor minus 1 and no operand to its right in the same
\* call has become a back-reference; otherwise it becomes a back-reference leaf.
C8_AsStated ==
  [][ExaminesRef =>
       /\ BecomesNested <=>
            (/\ RefCount(block, ExaminedArg) = 1
             /\ ExaminedArg = index - 1
             /\ ~RightHasBackRefLeaf)
       /\ BecomesNested \/ BecomesBackRef]_vars

\* C8 amended: a reference operand becomes a nested tree exactly when its use
\* count is 1, it is the cursor minus 1 and no operand to its right in the same
\* call is a back-reference or a nested tree that holds a back-reference;
\* otherwise it becomes a back-reference leaf, and left of a back-reference leaf
\* every operand of that call is a back-reference or a constant.
C8_Amended ==
  /\ [][ExaminesRef =>
          /\ BecomesNested <=>
               (/\ RefCount(block, ExaminedArg) = 1
                /\ ExaminedArg = index - 1
                /\ ~RightHasBackRef)
          /\ BecomesNested \/ BecomesBackRef]_vars
  /\ []LeftOfBackRef

\* C8 witness: a single-use operand at the cursor minus 1 is examined while the
\* only thing to its right is a nested tree that holds a back-reference.
C8_Witness ==
  /\ ExaminesRef
  /\ RefCount(block, ExaminedArg) = 1
  /\ ExaminedArg = index - 1
  /\ ~RightHasBackRefLeaf
  /\ RightHasBackRef

\* What is left to do: a natural number every step makes smaller.
PassWork ==
  1 + 4 * index + Len(stack)
    + (IF Len(stack) = 0 THEN 0
       ELSE LET Sum[d \in 0..Len(stack)] ==
                  IF d = 0 THEN 0 ELSE Sum[d - 1] + stack[d].j + 1
            IN Sum[Len(stack)])

Measure ==
  CASE pc = "input" -> 2 * (1 + 4 * MaxLen) + 1 + (MaxLen - Len(block))
    [] pc = "trees" -> (1 + 4 * MaxLen) + PassWork
    [] pc = "emit" -> PassWork
    [] pc = "done" -> 0

CallsAt(calls, i) == Cardinality({k \in 1..Len(calls) : calls[k][1] = i})

\* A step that calls visit puts the operation of the instruction at the cursor,
\* and nothing else of that instruction's own, in front of the output.
VisitCallEmitsOwnOp ==
  visitCalls' # visitCalls =>
    /\ Len(visitCalls') = Len(visitCalls) + 1
    /\ visitCalls'[Len(visitCalls')][1] = index'
    /\ wasmCode'[1] = OwnOp(At(block, index'))
    /\ opOwner'[1] = <<index', "own">>
    /\ Occurrences(opOwner', <<index', "own">>) = 1

\* A step that does not call visit emits no instruction's own operation.
OnlyVisitCallsEmitOwnOps ==
  visitCalls' = visitCalls =>
    \A i \in Positions(block) :
      Occurrences(opOwner', <<i, "own">>) <= Occurrences(opOwner, <<i, "own">>)

\* C9: both passes terminate (every step lowers a natural-number measure and a step
\* is possible until the transform is done), the cursor never increases within a
\* pass, and at the end every position has had exactly one recoverTree call and
\* exactly one visit call, each visit call having emitted the operation of its
\* instruction once.
C9_Terminates ==
  /\ [](pc # "done" => ENABLED Next)
  /\ [](Measure >= 0)
  /\ [][Measure' < Measure]_vars
  /\ [][pc' = pc => index' <= index]_vars
  /\ [][VisitCallEmitsOwnOp /\ OnlyVisitCallsEmitOwnOps]_vars
  /\ [](pc = "done" =>
          /\ \A i \in Positions(block) :
               CallsAt(recoverCalls, i) = 1 /\ CallsAt(visitCalls, i) = 1
          /\ Len(recoverCalls) = Len(block)
          /\ Len(visitCalls) = Len(block))

\* C9 witness: a block of full length is done, with calls nested two deep in both
\* passes.
C9_Witness ==
  /\ pc = "done"
  /\ Len(block) >= 3
  /\ \E k \in 1..Len(recoverCalls) : recoverCalls[k][2] >= 2
  /\ \E k \in 1..Len(visitCalls) : visitCalls[k][2] >= 2

InPlace == {visitCalls[k][1] : k \in {n \in 1..Len(visitCalls) : visitCalls[n][2] > 0}}

\* C7: the instructions the emitter computes in place are the instructions nested
\* in the forest, and the instructions with a local slot are the instructions
\* named by back-references.
C7_SameDecisions ==
  pc = "done" =>
    /\ InPlace = Range(NestedOfForest(trees, 1))
    /\ DOMAIN locals = BackRefsOfForest(trees)

\* ------------------------------------------------ an abstract stack machine

\* The local numbers the block's LocalGet and LocalSet instructions name.
NamedLocals(b) ==
  {Not(At(b, p).args[1]) : p \in {q \in Positions(b) : At(b, q).kind # "Add"}}

Slots == {locals[i] : i \in DOMAIN locals}

\* Every local starts with a value of its own.
InitialMemory == [n \in NamedLocals(block) \cup Slots |-> 1000 + n]

Top(s) == s[Len(s)]
Pop(s, n) == SubSeq(s, 1, Len(s) - n)

\* One operation on the machine [stk, loc, ok]; ok turns FALSE on a pop of an
\* empty stack.  Values stay far below 2^31, so i32.add is plain addition.
Exec(st, op) ==
  CASE ~st.ok -> st
    [] op[1] = "i32.const" -> [st EXCEPT !.stk = Append(st.stk, op[2])]
    [] op[1] = "get_local" -> [st EXCEPT !.stk = Append(st.stk, st.loc[op[2]])]
    [] op[1] = "set_local" ->
         IF Len(st.stk) < 1 THEN [st EXCEPT !.ok = FALSE]
         ELSE [st EXCEPT !.loc[op[2]] = Top(st.stk), !.stk = Pop(st.stk, 1)]
    [] op[1] = "tee_local" ->
         IF Len(st.stk) < 1 THEN [st EXCEPT !.ok = FALSE]
         ELSE [st EXCEPT !.loc[op[2]] = Top(st.stk)]
    [] op[1] = "i32.add" ->
         IF Len(st.stk) < 2 THEN [st EXCEPT !.ok = FALSE]
         ELSE [st EXCEPT !.stk = Append(Pop(st.stk, 2),
                                        st.stk[Len(st.stk) - 1] + Top(st.stk))]

RECURSIVE ExecAll(_, _, _)
ExecAll(st, ops, k) ==
  IF k > Len(ops) THEN st ELSE ExecAll(Exec(st, ops[k]), ops, k + 1)

\* The instructions evaluated one by one in index order: [val, loc].
OperandValue(val, arg) == IF arg < 0 THEN Not(arg) ELSE At(val, arg)

EvalIns(st, ins) ==
  CASE ins.kind = "Add" ->
         [st EXCEPT !.val = Append(st.val, OperandValue(st.val, ins.args[1])
                                            + OperandValue(st.val, ins.args[2]))]
    [] ins.kind = "LocalGet" ->
         [st EXCEPT !.val = Append(st.val, st.loc[Not(ins.args[1])])]
    [] ins.kind = "LocalSet" ->
         [st EXCEPT !.val = Append(st.val, 0),
                    !.loc[Not(ins.args[1])] = OperandValue(st.val, ins.args[2])]

RECURSIVE EvalAll(_, _, _)
EvalAll(st, b, p) ==
  IF p >= Len(b) THEN st ELSE EvalAll(EvalIns(st, At(b, p)), b, p + 1)

Emitted == ExecAll([stk |-> <<>>, loc |-> InitialMemory, ok |-> TRUE], wasmCode, 1)

Evaluated == EvalAll([val |-> <<>>, loc |-> InitialMemory], block, 0)

SameSourceLocals ==
  /\ Emitted.ok
  /\ \A n \in NamedLocals(block) : Emitted.loc[n] = Evaluated.loc[n]

\* No allocated slot is a local the block names.
NoCollision == Slots \cap NamedLocals(block) = {}

\* C1: the emitted sequence of a well-formed block never pops an empty stack and
\* leaves in the source locals the values that evaluating the instructions in
\* index order leaves.
C1_OrderPreserved == pc = "done" => SameSourceLocals

\* C1 where no slot collides with a source local (what is left of C1 without the
\* collision of C10).
C1_WithoutCollision == (pc = "done" /\ NoCollision) => SameSourceLocals

\* C10: no slot the emitter allocates is a local number that a LocalGet or
\* LocalSet of the block names.
C10_SlotsAvoidSourceLocals == NoCollision

\* The stores to slot L and the loads of it in the output.
StoresTo(L) ==
  {k \in 1..Len(wasmCode) : wasmCode[k] \in {<<"set_local", L>>, <<"tee_local", L>>}}

LoadsFrom(L) == {k \in 1..Len(wasmCode) : wasmCode[k] = <<"get_local", L>>}

\* The position of the store of instruction i's slot.
StoresOf(i) == {k \in 1..Len(opOwner) : opOwner[k] = <<i, "store">>}

\* The root loop reaches an instruction that has a slot.
StoresSlot ==
  /\ pc = "emit"
  /\ Len(stack) = 0
  /\ index > 0
  /\ (index - 1) \in DOMAIN locals

NextIsLoadOfSlot ==
  /\ Len(wasmCode) > 0
  /\ wasmCode[1] = <<"get_local", locals[index - 1]>>

\* C3, the step: where the root loop reaches an instruction with slot L and the
\* operation that follows is a load of L, that load is replaced by tee_local L;
\* otherwise set_local L is put in front of the operation that follows.  Either way
\* the instruction's own operations come directly in front of it.
FusesOrStores ==
  StoresSlot =>
    LET L == locals[index - 1]
    IN /\ wasmCode'[1] = OwnOp(At(block, index - 1))
       /\ IF NextIsLoadOfSlot
          THEN /\ wasmCode'[2] = <<"tee_local", L>>
               /\ SubSeq(wasmCode', 3, Len(wasmCode')) = Tail(wasmCode)
          ELSE /\ wasmCode'[2] = <<"set_local", L>>
               /\ SubSeq(wasmCode', 3, Len(wasmCode')) = wasmCode

\* Within a call of visit from the root loop, operations are only put in front.
OnlyPrepends ==
  (pc = "emit" /\ Len(stack) > 0) =>
    /\ Len(wasmCode') >= Len(wasmCode)
    /\ SubSeq(wasmCode', Len(wasmCode') - Len(wasmCode) + 1, Len(wasmCode')) = wasmCode

\* C3, the result: every instruction with a slot L has exactly one store in the
\* output, a tee_local L or a set_local L that no get_local L follows directly.
StoredOnce ==
  pc = "done" =>
    \A i \in DOMAIN locals :
      /\ Cardinality(StoresOf(i)) = 1
      /\ \A k \in StoresOf(i) :
           \/ wasmCode[k] = <<"tee_local", locals[i]>>
           \/ /\ wasmCode[k] = <<"set_local", locals[i]>>
              /\ k < Len(wasmCode) => wasmCode[k + 1] # <<"get_local", locals[i]>>

\* C3: a value with slot L is stored by a single tee_local L that replaces the load
\* of L executing right after the value's own operations, and in every other case
\* by exactly one set_local L directly after them; set_local L followed by
\* get_local L is never emitted for it.
C3_Fusion ==
  /\ [][FusesOrStores /\ OnlyPrepends]_vars
  /\ []StoredOnce

\* C3 witness: the output holds a tee_local of a slot, its value's own operation
\* right before it and a further load of the slot after it.
C3_Witness ==
  /\ pc = "done"
  /\ \E i \in DOMAIN locals : \E k \in StoresOf(i) :
       /\ wasmCode[k] = <<"tee_local", locals[i]>>
       /\ k > 1
       /\ opOwner[k - 1] = <<i, "own">>
       /\ \E n \in LoadsFrom(locals[i]) : n > k

\* visit examines a reference operand that it does not compute in place.
LoadsOperand ==
  /\ pc = "emit"
  /\ Len(stack) > 0
  /\ stack[Len(stack)].j >= stack[Len(stack)].lower
  /\ At(At(block, stack[Len(stack)].ins).args, stack[Len(stack)].j) >= 0
  /\ Len(stack') = Len(stack)

LoadedArg == At(At(block, stack[Len(stack)].ins).args, stack[Len(stack)].j)

OneStoreBeforeLoads ==
  pc = "done" =>
    \A i \in DOMAIN locals :
      LoadsFrom(locals[i]) # {} =>
        /\ Cardinality(StoresTo(locals[i])) = 1
        /\ StoresTo(locals[i]) = StoresOf(i)
        /\ \A k \in StoresTo(locals[i]) : \A n \in LoadsFrom(locals[i]) : k < n

\* C4: a reference operand that is not computed in place is emitted as a load of
\* the slot of the instruction it names, and every slot that the output loads has
\* exactly one store in the output, the one of the defining instruction, ahead of
\* every load of that slot.
C4_LoadsFollowOneStore ==
  /\ [][LoadsOperand =>
          /\ LoadedArg \in DOMAIN locals'
          /\ wasmCode' = Unshift(wasmCode, <<"get_local", locals'[LoadedArg]>>)]_vars
  /\ []OneStoreBeforeLoads

\* C4 where no slot collides with a source local.
C4_WithoutCollision ==
  /\ [][LoadsOperand =>
          /\ LoadedArg \in DOMAIN locals'
          /\ wasmCode' = Unshift(wasmCode, <<"get_local", locals'[LoadedArg]>>)]_vars
  /\ [](NoCollision => OneStoreBeforeLoads)

\* An operand names the instruction that holds it, a later one, or none of the block.
InvalidReference(b) ==
  \E p \in Positions(b) : \E k \in 1..Len(At(b, p).args) : At(b, p).args[k] >= p

\* C6: for a block with an invalid reference the transform returns no forest and
\* no operation sequence, not even a partial one.
C6_InvalidReferenceRejected ==
  (pc = "done" /\ InvalidReference(block)) => (trees = <<>> /\ wasmCode = <<>>)
====
